---- MODULE Spec2Model ----
(***************************************************************************)
(* Model of salmar-desktop/src/auth.js: the retry wrapper (withRetry),     *)
(* getSession, the identifier-based sign-in, sign-out, the                 *)
(* authorization-code exchange, the two passkey ceremonies and the local   *)
(* passkey flag.  The remote SDK, the edge functions and the WebAuthn      *)
(* library are the environment: each call to them is answered              *)
(* nondeterministically with a returned value or a thrown value.           *)
(* Execution is single-threaded; every await is one step.                  *)
(***************************************************************************)
EXTENDS Integers, Sequences, FiniteSets

VARIABLES
    op,         \* the exported operation that is running, with its arguments
    pc,         \* "idle", "sdk", "post", "ceremony", "resume", "done"
    site,       \* which await of the running operation is pending
    cur,        \* the SDK call being awaited (through withRetry or directly)
    attempt,    \* withRetry's local counter
    email,      \* the local `email` of signInIdentifier / authenticatePasskey
    ret,        \* outcome of the await that just completed
    calls,      \* external calls made by the running invocation, in order
    result,     \* how the invocation ended: returned value or thrown value
    urlOk,      \* whether SUPABASE_URL parses (functionsBase() non-empty)
    session,    \* the session the SDK client holds (Null when signed out)
    storage,    \* localStorage['salmar_has_passkey'] (Null when absent)
    marks       \* arguments of the markPasskeyEnrolled calls made so far

vars == <<op, pc, site, cur, attempt, email, ret, calls, result, urlOk,
          session, storage, marks>>

---------------------------------------------------------------------------
(* Bounds of the model *)

MaxRetries == 3

\* how many markPasskeyEnrolled calls a behaviour makes
MaxMarks == 4

BaseDelays == {0, 300}

---------------------------------------------------------------------------
(* JavaScript strings are sequences of characters *)

PatTimedOut == <<"t", "i", "m", "e", "d", " ", "o", "u", "t">>
PatIncompleteEnvelope == <<"i", "n", "c", "o", "m", "p", "l", "e", "t", "e", " ", "e", "n", "v", "e", "l", "o", "p", "e">>
PatEconnreset == <<"e", "c", "o", "n", "n", "r", "e", "s", "e", "t">>
PatNetwork == <<"n", "e", "t", "w", "o", "r", "k">>
PatFetchFailed == <<"f", "e", "t", "c", "h", " ", "f", "a", "i", "l", "e", "d">>

MsgFetchFailed == <<"f", "e", "t", "c", "h", " ", "f", "a", "i", "l", "e", "d">>
MsgNetworkUpper == <<"N", "e", "t", "w", "o", "r", "k", " ", "d", "o", "w", "n">>
MsgTimedOut == <<"t", "i", "m", "e", "d", " ", "o", "u", "t">>
MsgInvalid == <<"i", "n", "v", "a", "l", "i", "d", " ", "p", "a", "s", "s", "w", "o", "r", "d">>
MsgNetSplit == <<"n", "e", "t", " ", "w", "o", "r", "k">>
MsgForbidden == <<"F", "o", "r", "b", "i", "d", "d", "e", "n">>
MsgUserNotFound == <<"u", "s", "e", "r", "_", "n", "o", "t", "_", "f", "o", "u", "n", "d">>
MsgAuthFailed == <<"a", "u", "t", "h", "_", "f", "a", "i", "l", "e", "d">>
MsgInvalidUrl == <<"I", "n", "v", "a", "l", "i", "d", " ", "S", "u", "p", "a", "b", "a", "s", "e", " ", "U", "R", "L", " ", "f", "o", "r", " ", "f", "u", "n", "c", "t", "i", "o", "n", "s">>
StrError == <<"E", "r", "r", "o", "r">>
StrUndefined == <<"u", "n", "d", "e", "f", "i", "n", "e", "d">>
StrNull == <<"n", "u", "l", "l">>
StrObject == <<"[", "o", "b", "j", "e", "c", "t", " ", "O", "b", "j", "e", "c", "t", "]">>
MsgNotAllowed == <<"N", "o", "t", "A", "l", "l", "o", "w", "e", "d">>
MsgNotAuthenticated == <<"N", "o", "t", " ", "a", "u", "t", "h", "e", "n", "t", "i", "c", "a", "t", "e", "d">>
StrUser == <<"u", "s", "e", "r">>

UpperToLower ==
    [c \in {"A", "B", "C", "D", "E", "F", "G", "H", "I", "J", "K", "L", "M",
            "N", "O", "P", "Q", "R", "S", "T", "U", "V", "W", "X", "Y", "Z"} |->
        CASE c = "A" -> "a" [] c = "B" -> "b" [] c = "C" -> "c" [] c = "D" -> "d"
          [] c = "E" -> "e" [] c = "F" -> "f" [] c = "G" -> "g" [] c = "H" -> "h"
          [] c = "I" -> "i" [] c = "J" -> "j" [] c = "K" -> "k" [] c = "L" -> "l"
          [] c = "M" -> "m" [] c = "N" -> "n" [] c = "O" -> "o" [] c = "P" -> "p"
          [] c = "Q" -> "q" [] c = "R" -> "r" [] c = "S" -> "s" [] c = "T" -> "t"
          [] c = "U" -> "u" [] c = "V" -> "v" [] c = "W" -> "w" [] c = "X" -> "x"
          [] c = "Y" -> "y" [] c = "Z" -> "z"]

\* the /i flag: letters compare without case
FoldCase(s) ==
    [i \in 1..Len(s) |-> IF s[i] \in DOMAIN UpperToLower THEN UpperToLower[s[i]] ELSE s[i]]

\* an unanchored regex of literal characters matches iff it occurs as a substring
Contains(s, p) ==
    \E i \in 0..(Len(s) - Len(p)) : \A j \in 1..Len(p) : s[i + j] = p[j]

---------------------------------------------------------------------------
(* JavaScript values *)

Undef == [t |-> "undefined"]
Null == [t |-> "null"]
Str(s) == [t |-> "string", s |-> s]
Obj(f) == [t |-> "object", f |-> f]
\* new Error(message)
Err(m) == [t |-> "Error", f |-> [message |-> Str(m)]]

\* o?.key
Get(o, key) ==
    IF o.t \in {"object", "Error"} /\ key \in DOMAIN o.f THEN o.f[key] ELSE Undef

Bool(b) == [t |-> "boolean", b |-> b]

Truthy(v) == /\ v.t \notin {"undefined", "null"}
             /\ v.t = "string" => v.s # <<>>
             /\ v.t = "boolean" => v.b

\* a || b
OrElse(a, b) == IF Truthy(a) THEN a ELSE b

\* String(v)
StringOf(v) ==
    CASE v.t = "string" -> v.s
      [] v.t = "undefined" -> StrUndefined
      [] v.t = "null" -> StrNull
      [] v.t = "Error" ->
            IF Truthy(Get(v, "message"))
            THEN StrError \o <<":", " ">> \o Get(v, "message").s
            ELSE StrError
      [] OTHER -> StrObject

---------------------------------------------------------------------------
(* withRetry *)

DefaultRetries == 2
DefaultBaseDelay == 300

TransientPatterns ==
    {PatTimedOut, PatIncompleteEnvelope, PatEconnreset, PatNetwork, PatFetchFailed}

\* const msg = String(e?.message || e || "")
ErrorText(e) == StringOf(OrElse(OrElse(Get(e, "message"), e), Str(<<>>)))

\* /timed out|incomplete envelope|ECONNRESET|network|fetch failed/i.test(msg)
Transient(msg) == \E p \in TransientPatterns : Contains(FoldCase(msg), p)

\* a linear backoff in place of the exponential one
BackoffLinear(baseDelay, att) == baseDelay * (att + 1)

\* baseDelay * Math.pow(2, attempt)
Backoff(baseDelay, att) == baseDelay * (2 ^ att)

\* retries every thrown error while the budget lasts
DecideAnyError(out, att, retries) ==
    IF out.kind = "return" THEN "return"
    ELSE IF att < retries THEN "retry"
    ELSE "throw"

\* also retries when the returned value carries a transient-looking error payload
DecideOnPayload(out, att, retries) ==
    IF out.kind = "return"
    THEN IF /\ att < retries
            /\ Truthy(Get(out.val, "error"))
            /\ Transient(ErrorText(Get(out.val, "error")))
         THEN "retry" ELSE "return"
    ELSE IF att < retries /\ Transient(ErrorText(out.val)) THEN "retry"
    ELSE "throw"

\* allows one retry more than the budget
DecideOffByOne(out, att, retries) ==
    IF out.kind = "return" THEN "return"
    ELSE IF att <= retries /\ Transient(ErrorText(out.val)) THEN "retry"
    ELSE "throw"

\* One pass of the while(true) body: what happens to the attempt's outcome.
Decide(out, att, retries) ==
    IF out.kind = "return" THEN "return"
    ELSE IF att < retries /\ Transient(ErrorText(out.val)) THEN "retry"
    ELSE "throw"

Returned(v) == [kind |-> "return", val |-> v]
Thrown(v) == [kind |-> "throw", val |-> v]
NoOutcome == [kind |-> "none", val |-> Undef]

\* an awaited SDK call made through withRetry(fn, {retries, baseDelay})
ViaRetry(fn, arg, retries, baseDelay) ==
    [fn |-> fn, arg |-> arg, wrapped |-> TRUE, retries |-> retries, baseDelay |-> baseDelay]

\* an awaited SDK call made without the wrapper
Direct(fn, arg) ==
    [fn |-> fn, arg |-> arg, wrapped |-> FALSE, retries |-> 0, baseDelay |-> 0]

NoCall == Direct("none", Undef)

---------------------------------------------------------------------------
(* The environment: what a remote call can answer *)

ThrownValues ==
    {Err(MsgFetchFailed), Err(MsgNetworkUpper), Err(MsgInvalid), Err(MsgNetSplit),
     Err(<<>>), Str(MsgTimedOut), Undef}

\* what the SDK throws in the composed operations: a transient and a permanent error
SdkThrown == {Err(MsgFetchFailed), Err(MsgInvalid)}

OkPayload == Obj([data |-> Obj([session |-> Str(<<"s">>)]), error |-> Null])
ErrPayload(m) == Obj([data |-> Null, error |-> Obj([message |-> Str(m)])])

GenericOutcomes ==
    {Returned(v) : v \in {OkPayload, ErrPayload(MsgInvalid), ErrPayload(MsgFetchFailed), Undef}}
    \cup {Thrown(e) : e \in ThrownValues}

SdkOutcomes ==
    {Returned(v) : v \in {OkPayload, ErrPayload(MsgInvalid)}}
    \cup {Thrown(e) : e \in SdkThrown}

ResolvedEmail == <<"a", "@", "b">>

\* answers of the profiles query (.maybeSingle()): a row, a row without an
\* email, no row, an error payload, or a thrown transport error
ProfileOutcomes ==
    {Returned(v) : v \in
        {Obj([data |-> Obj([email |-> Str(ResolvedEmail)]), error |-> Null]),
         Obj([data |-> Obj([email |-> Null]), error |-> Null]),
         Obj([data |-> Null, error |-> Null]),
         Obj([data |-> Null, error |-> Obj([message |-> Str(MsgForbidden)])])}}
    \cup {Thrown(e) : e \in SdkThrown}

\* a session restored from persisted storage at startup, and one the SDK
\* installs on a successful sign-in, setSession or code exchange
StoredSession == Str(<<"s", "0">>)
NewSession == Str(<<"s", "1">>)

\* answers of supabase.auth.getSession(): the held session, an error payload,
\* or a thrown transport error
GetSessionOutcomes ==
    {Returned(Obj([data |-> Obj([session |-> session]), error |-> Null])),
     Returned(Obj([data |-> Obj([session |-> Null]),
                   error |-> Obj([message |-> Str(MsgInvalid)])]))}
    \cup {Thrown(e) : e \in SdkThrown}

IdOf(u) == Str(<<"i", "d">>)

\* the users supabase.auth.getUser() may report: with a username in the
\* metadata, with an email only, and without either (anonymous)
Users ==
    {Obj([id |-> IdOf(0), email |-> Str(ResolvedEmail),
          user_metadata |-> Obj([username |-> Str(<<"a", "l">>)])]),
     Obj([id |-> IdOf(0), email |-> Str(ResolvedEmail), user_metadata |-> Obj([k \in {} |-> Undef])]),
     Obj([id |-> IdOf(0), email |-> Undef, user_metadata |-> Undef])}

\* answers of supabase.auth.getUser(): a user only while a session is held
GetUserOutcomes ==
    {Returned(Obj([data |-> Obj([user |-> Null]),
                   error |-> Obj([message |-> Str(MsgInvalid)])]))}
    \cup (IF session = Null THEN {}
          ELSE {Returned(Obj([data |-> Obj([user |-> u]), error |-> Null])) : u \in Users})
    \cup {Thrown(e) : e \in SdkThrown}

Outcomes(fn) ==
    CASE fn = "fn" -> GenericOutcomes
      [] fn = "profiles" -> ProfileOutcomes
      [] fn = "getSession" -> GetSessionOutcomes
      [] fn = "getUser" -> GetUserOutcomes
      [] OTHER -> SdkOutcomes

SessionInstalling ==
    {"signUp", "signInWithPassword", "signInAnonymously", "setSession",
     "exchangeCodeForSession"}

\* the session the SDK client holds after a call answered with out
SessionAfter(fn, out, s) ==
    IF out.kind = "return" /\ ~Truthy(Get(out.val, "error"))
    THEN IF fn \in SessionInstalling THEN NewSession
         ELSE IF fn = "signOut" THEN Null
         ELSE s
    ELSE s

---------------------------------------------------------------------------
(* Inputs of the exported operations *)

Identifiers ==
    {<<"a", "l">>, <<" ", "a", "l", " ">>, <<"a", "@", "b">>, <<" ", "x", "@", "y">>, <<>>}

Passwords == {Str(<<"p">>)}

CaptchaTokens == {Undef, Str(<<"c">>)}

Urls == {Str(<<"u">>)}

---------------------------------------------------------------------------
(* State machine *)

Init ==
    /\ op = [name |-> "none"]
    /\ pc = "idle"
    /\ site = "none"
    /\ cur = NoCall
    /\ attempt = 0
    /\ email = Undef
    /\ ret = NoOutcome
    /\ calls = <<>>
    /\ result = NoOutcome
    /\ urlOk \in BOOLEAN
    /\ session \in {Null, StoredSession}
    /\ storage = Null
    /\ marks = <<>>

CallEntry(c, out) == [call |-> c.fn, arg |-> c.arg, out |-> out]
TimerEntry(ms) == [call |-> "setTimeout", arg |-> ms, out |-> Returned(Undef)]

\* start of an invocation: fresh locals, empty call log, first call pending
BeginAt(p, o, c, s, e) ==
    /\ op' = o
    /\ cur' = c
    /\ site' = s
    /\ pc' = p
    /\ attempt' = 0
    /\ email' = e
    /\ ret' = NoOutcome
    /\ calls' = <<>>
    /\ result' = NoOutcome
    /\ UNCHANGED <<urlOk, session, storage, marks>>

Begin(o, c, s, e) == BeginAt("sdk", o, c, s, e)

\* the running operation awaits another call: an SDK call ("sdk"), a
\* postJson ("post") or the WebAuthn ceremony ("ceremony")
AwaitAt(p, c, s) ==
    /\ cur' = c
    /\ site' = s
    /\ pc' = p
    /\ attempt' = 0
    /\ UNCHANGED <<op, ret, calls, result, urlOk, session, storage, marks>>

\* the running operation ends, returning or throwing
Finish(r) ==
    /\ result' = r
    /\ pc' = "done"
    /\ UNCHANGED <<op, site, cur, attempt, email, ret, calls, urlOk,
                   session, storage, marks>>

\* One awaited attempt of the pending SDK call and the handling of its outcome
\* (the try/catch of withRetry when the call is wrapped).
SdkStep ==
    /\ pc = "sdk"
    /\ \E out \in Outcomes(cur.fn) :
        LET d == IF cur.wrapped THEN Decide(out, attempt, cur.retries)
                 ELSE IF out.kind = "return" THEN "return" ELSE "throw"
        IN /\ session' = SessionAfter(cur.fn, out, session)
           /\ IF d = "retry"
              THEN /\ calls' = calls \o <<CallEntry(cur, out),
                                          TimerEntry(Backoff(cur.baseDelay, attempt))>>
                   /\ attempt' = attempt + 1
                   /\ UNCHANGED <<pc, ret>>
              ELSE /\ calls' = Append(calls, CallEntry(cur, out))
                   /\ ret' = out
                   /\ pc' = "resume"
                   /\ UNCHANGED attempt
    /\ UNCHANGED <<op, site, cur, email, result, urlOk, storage, marks>>

---------------------------------------------------------------------------
(* withRetry called on an arbitrary operation fn *)

CallWithRetry ==
    /\ pc \in {"idle", "done"}
    /\ \E R \in 0..MaxRetries, B \in BaseDelays :
        Begin([name |-> "withRetry", retries |-> R, baseDelay |-> B],
              ViaRetry("fn", Undef, R, B), "withRetry", Undef)

ResumeWithRetry ==
    /\ pc = "resume" /\ site = "withRetry"
    /\ Finish(ret)

---------------------------------------------------------------------------
(* getSession *)

\* supabase.auth.getSession()
GetSessionCall == Direct("getSession", Undef)

\* const { data } = ...; return data.session || null
GetSessionResult(r) ==
    IF r.kind = "throw" THEN r
    ELSE Returned(OrElse(Get(Get(r.val, "data"), "session"), Null))

GetSession ==
    /\ pc \in {"idle", "done"}
    /\ Begin([name |-> "getSession"], GetSessionCall, "getSession", Undef)

ResumeGetSession ==
    /\ pc = "resume" /\ site = "getSession"
    /\ Finish(GetSessionResult(ret))

---------------------------------------------------------------------------
(* signInEmail, resolveEmailByUsername, signInIdentifier *)

\* /@/.test(identifier)
LooksLikeEmail(identifier) == Contains(identifier, <<"@">>)

IsSpace(c) == c \in {" ", "\t", "\n"}

RECURSIVE TrimStart(_)
TrimStart(s) == IF s # <<>> /\ IsSpace(Head(s)) THEN TrimStart(Tail(s)) ELSE s

RECURSIVE TrimEnd(_)
TrimEnd(s) ==
    IF s # <<>> /\ IsSpace(s[Len(s)]) THEN TrimEnd(SubSeq(s, 1, Len(s) - 1)) ELSE s

\* String.prototype.trim
Trim(s) == TrimEnd(TrimStart(s))

\* withRetry(() => supabase.auth.signInWithPassword({email, password, options: {captchaToken}}))
SignInEmailCall(em, password, captchaToken) ==
    ViaRetry("signInWithPassword",
             Obj([email |-> em, password |-> password,
                  options |-> Obj([captchaToken |-> captchaToken])]),
             DefaultRetries, DefaultBaseDelay)

\* withRetry(() => supabase.from('profiles').select('email').eq('username', username).maybeSingle())
ProfilesCall(username) ==
    ViaRetry("profiles", Str(username), DefaultRetries, DefaultBaseDelay)

\* what resolveEmailByUsername returns for the {data, error} the query returned
ResolveResult(v) ==
    IF Truthy(Get(v, "error")) THEN Obj([error |-> Get(v, "error")])
    ELSE IF ~Truthy(Get(v, "data")) THEN Obj([data |-> Null])
    ELSE Obj([data |-> Get(v, "data")])

\* signs in without checking that the lookup found an email
AfterResolveNoMissCheck(r) ==
    IF Truthy(Get(r, "error"))
    THEN [kind |-> "return", val |-> Obj([error |-> Get(r, "error")])]
    ELSE [kind |-> "signin", val |-> Get(Get(r, "data"), "email")]

\* signInIdentifier after resolveEmailByUsername returned r: an early return
\* of an {error} result, or the email to sign in with
AfterResolve(r) ==
    IF Truthy(Get(r, "error"))
    THEN [kind |-> "return", val |-> Obj([error |-> Get(r, "error")])]
    ELSE IF ~Truthy(Get(Get(r, "data"), "email"))
    THEN [kind |-> "return",
          val |-> Obj([error |-> Obj([message |-> Str(MsgUserNotFound)])])]
    ELSE [kind |-> "signin", val |-> Get(Get(r, "data"), "email")]

\* trims the identifier on the email path too
FirstSignInCallTrimmed(identifier, password, captchaToken) ==
    IF ~LooksLikeEmail(identifier)
    THEN [call |-> ProfilesCall(Trim(identifier)), site |-> "si_resolve"]
    ELSE [call |-> SignInEmailCall(Str(Trim(identifier)), password, captchaToken),
          site |-> "si_signin"]

\* the first await of signInIdentifier for an identifier
FirstSignInCall(identifier, password, captchaToken) ==
    IF ~LooksLikeEmail(identifier)
    THEN [call |-> ProfilesCall(Trim(identifier)), site |-> "si_resolve"]
    ELSE [call |-> SignInEmailCall(Str(identifier), password, captchaToken),
          site |-> "si_signin"]

SignInIdentifier ==
    /\ pc \in {"idle", "done"}
    /\ \E identifier \in Identifiers, password \in Passwords, captchaToken \in CaptchaTokens :
        LET first == FirstSignInCall(identifier, password, captchaToken)
        IN Begin([name |-> "signInIdentifier", identifier |-> identifier,
                  password |-> password, captchaToken |-> captchaToken],
                 first.call, first.site, Str(identifier))

ResumeSignInResolve ==
    /\ pc = "resume" /\ site = "si_resolve"
    /\ IF ret.kind = "throw"
       THEN Finish(ret)
       ELSE LET a == AfterResolve(ResolveResult(ret.val))
            IN IF a.kind = "return"
               THEN Finish(Returned(a.val))
               ELSE /\ email' = a.val
                    /\ AwaitAt("sdk",
                               SignInEmailCall(a.val, op.password, op.captchaToken),
                               "si_signin")

ResumeSignInEmail ==
    /\ pc = "resume" /\ site = "si_signin"
    /\ Finish(ret)

---------------------------------------------------------------------------
(* signOut *)

\* sign-out wrapped in the retry helper like the other operations
SignOutCallRetried == ViaRetry("signOut", Undef, DefaultRetries, DefaultBaseDelay)

\* supabase.auth.signOut()
SignOutCall == Direct("signOut", Undef)

SignOut ==
    /\ pc \in {"idle", "done"}
    /\ Begin([name |-> "signOut"], SignOutCall, "signOut", Undef)

ResumeSignOut ==
    /\ pc = "resume" /\ site = "signOut"
    /\ Finish(ret)

---------------------------------------------------------------------------
(* exchangeCodeFromUrl *)

\* withRetry(() => supabase.auth.exchangeCodeForSession(url))
ExchangeCall(url) ==
    ViaRetry("exchangeCodeForSession", url, DefaultRetries, DefaultBaseDelay)

\* lets the failure propagate
ExchangeResultRethrown(r) == r

\* try { return await withRetry(...) } catch (e) { return { error: e } }
ExchangeResult(r) ==
    IF r.kind = "throw" THEN Returned(Obj([error |-> r.val])) ELSE r

ExchangeCodeFromUrl ==
    /\ pc \in {"idle", "done"}
    /\ \E url \in Urls :
        Begin([name |-> "exchangeCodeFromUrl", url |-> url],
              ExchangeCall(url), "exchange", Undef)

ResumeExchange ==
    /\ pc = "resume" /\ site = "exchange"
    /\ Finish(ExchangeResult(ret))

---------------------------------------------------------------------------
(* postJson and authenticatePasskey *)

EmptyObj == Obj([k \in {} |-> Undef])

\* a fetch Response: res.ok, res.statusText and the body as res.json() parses
\* it ({} when parsing fails)
Response(ok, json, statusText) ==
    Obj([ok |-> Bool(ok), json |-> json, statusText |-> Str(statusText)])

\* returns the body whatever the status
PostJsonResultAnyStatus(resp) ==
    IF resp.kind = "throw" THEN resp ELSE Returned(Get(resp.val, "json"))

\* postJson once fetch has answered: non-2xx throws new Error(json?.error ||
\* res.statusText), 2xx returns the parsed body; a throw of fetch propagates
PostJsonResult(resp) ==
    IF resp.kind = "throw" THEN resp
    ELSE IF ~Truthy(Get(resp.val, "ok"))
    THEN Thrown(Err(StringOf(OrElse(Get(Get(resp.val, "json"), "error"),
                                    Get(resp.val, "statusText")))))
    ELSE Returned(Get(resp.val, "json"))

PathOptions == "/webauthn/generate-authentication-options"
PathVerify == "/webauthn/verify-authentication"

TokenA == Str(<<"A">>)
TokenR == Str(<<"R">>)
ActionLink == Str(<<"L">>)

\* bodies the verify-authentication endpoint may answer with
VerifyShapes ==
    {Obj([access_token |-> a, refresh_token |-> r, action_link |-> l]) :
        a \in {Undef, Str(<<>>), TokenA}, r \in {Undef, TokenR}, l \in {Undef, ActionLink}}
    \cup {EmptyObj, Null}

FetchFailures ==
    {Returned(Response(FALSE, Obj([error |-> Str(MsgInvalid)]), MsgForbidden)),
     Returned(Response(FALSE, EmptyObj, MsgForbidden)),
     Thrown(Err(MsgFetchFailed))}

FetchOutcomes(path) ==
    IF path = PathVerify
    THEN {Returned(Response(TRUE, j, <<"O", "K">>)) : j \in VerifyShapes} \cup FetchFailures
    ELSE {Returned(Response(TRUE, Obj([challenge |-> Str(<<"c">>)]), <<"O", "K">>))}
         \cup FetchFailures

CeremonyOutcomes ==
    {Returned(Obj([id |-> Str(<<"k">>)])), Thrown(Err(MsgNotAllowed))}

PostCall(path, body) == Direct("fetch", Obj([path |-> Str(<<path>>), body |-> body]))

\* postJson(path, body): throws before fetching when functionsBase() is empty
PostStep ==
    /\ pc = "post"
    /\ IF ~urlOk
       THEN /\ ret' = Thrown(Err(MsgInvalidUrl))
            /\ UNCHANGED calls
       ELSE \E resp \in FetchOutcomes(Get(cur.arg, "path").s[1]) :
                /\ calls' = Append(calls, CallEntry(cur, resp))
                /\ ret' = PostJsonResult(resp)
    /\ pc' = "resume"
    /\ UNCHANGED <<op, site, cur, attempt, email, result, urlOk,
                   session, storage, marks>>

\* startAuthentication(options)
CeremonyStep ==
    /\ pc = "ceremony"
    /\ \E out \in CeremonyOutcomes :
        /\ calls' = Append(calls, CallEntry(cur, out))
        /\ ret' = out
    /\ pc' = "resume"
    /\ UNCHANGED <<op, site, cur, attempt, email, result, urlOk,
                   session, storage, marks>>

PasskeyIdentifiers ==
    {Undef} \cup {Str(i) : i \in {<<"a", "l">>, <<" ", "a", "l", " ">>, <<"a", "@", "b">>, <<>>}}

\* email && !/@/.test(email)
NeedsResolve(em) == Truthy(em) /\ ~LooksLikeEmail(em.s)

OptionsPost(em) == PostCall(PathOptions, Obj([email |-> em]))

VerifyPost(assertion, em) ==
    PostCall(PathVerify, Obj([assertion |-> assertion, email |-> em]))

\* prefers the action link over the token pair
InstallSessionLinkFirst(out) ==
    IF Truthy(Get(out, "action_link"))
    THEN [kind |-> "exchange", call |-> ExchangeCall(Get(out, "action_link"))]
    ELSE IF Truthy(Get(out, "access_token")) /\ Truthy(Get(out, "refresh_token"))
    THEN [kind |-> "setSession",
          call |-> Direct("setSession",
                          Obj([access_token |-> Get(out, "access_token"),
                               refresh_token |-> Get(out, "refresh_token")]))]
    ELSE [kind |-> "fail", call |-> NoCall]

\* installs a session when either token is present
InstallSessionEitherToken(out) ==
    IF Truthy(Get(out, "access_token")) \/ Truthy(Get(out, "refresh_token"))
    THEN [kind |-> "setSession",
          call |-> Direct("setSession",
                          Obj([access_token |-> Get(out, "access_token"),
                               refresh_token |-> Get(out, "refresh_token")]))]
    ELSE IF Truthy(Get(out, "action_link"))
    THEN [kind |-> "exchange", call |-> ExchangeCall(Get(out, "action_link"))]
    ELSE [kind |-> "fail", call |-> NoCall]

\* what authenticatePasskey does with the verify-authentication response
InstallSession(out) ==
    IF Truthy(Get(out, "access_token")) /\ Truthy(Get(out, "refresh_token"))
    THEN [kind |-> "setSession",
          call |-> Direct("setSession",
                          Obj([access_token |-> Get(out, "access_token"),
                               refresh_token |-> Get(out, "refresh_token")]))]
    ELSE IF Truthy(Get(out, "action_link"))
    THEN [kind |-> "exchange", call |-> ExchangeCall(Get(out, "action_link"))]
    ELSE [kind |-> "fail", call |-> NoCall]

MsgImportFailed == <<"i", "m", "p", "o", "r", "t">>

AuthenticatePasskey ==
    /\ pc \in {"idle", "done"}
    /\ \E identifier \in PasskeyIdentifiers, imported \in BOOLEAN :
        LET o == [name |-> "authenticatePasskey", identifier |-> identifier]
            em == OrElse(identifier, Str(<<>>))
        IN IF ~imported
           THEN /\ op' = o
                /\ pc' = "done"
                /\ site' = "pk_import"
                /\ cur' = NoCall
                /\ attempt' = 0
                /\ email' = Undef
                /\ ret' = NoOutcome
                /\ calls' = <<>>
                /\ result' = Thrown(Err(MsgImportFailed))
                /\ UNCHANGED <<urlOk, session, storage, marks>>
           ELSE IF NeedsResolve(em)
           THEN BeginAt("sdk", o, ProfilesCall(Trim(em.s)), "pk_resolve", em)
           ELSE BeginAt("post", o, OptionsPost(em), "pk_options", em)

ResumePasskeyResolve ==
    /\ pc = "resume" /\ site = "pk_resolve"
    /\ IF ret.kind = "throw"
       THEN Finish(ret)
       ELSE LET e == Get(Get(ResolveResult(ret.val), "data"), "email")
            IN IF Truthy(e)
               THEN /\ email' = e
                    /\ AwaitAt("post", OptionsPost(e), "pk_options")
               ELSE Finish(Thrown(Err(MsgUserNotFound)))

ResumePasskeyOptions ==
    /\ pc = "resume" /\ site = "pk_options"
    /\ IF ret.kind = "throw"
       THEN Finish(ret)
       ELSE /\ AwaitAt("ceremony", Direct("startAuthentication", ret.val), "pk_ceremony")
            /\ UNCHANGED email

ResumePasskeyCeremony ==
    /\ pc = "resume" /\ site = "pk_ceremony"
    /\ IF ret.kind = "throw"
       THEN Finish(ret)
       ELSE /\ AwaitAt("post", VerifyPost(ret.val, email), "pk_verify")
            /\ UNCHANGED email

ResumePasskeyVerify ==
    /\ pc = "resume" /\ site = "pk_verify"
    /\ IF ret.kind = "throw"
       THEN Finish(ret)
       ELSE LET a == InstallSession(ret.val)
            IN IF a.kind = "fail"
               THEN Finish(Thrown(Err(MsgAuthFailed)))
               ELSE /\ AwaitAt("sdk", a.call,
                               IF a.kind = "setSession" THEN "pk_setSession" ELSE "pk_exchange")
                    /\ UNCHANGED email

\* await supabase.auth.setSession(...); return { ok: true }
ResumePasskeySetSession ==
    /\ pc = "resume" /\ site = "pk_setSession"
    /\ Finish(IF ret.kind = "throw" THEN ret ELSE Returned(Obj([ok |-> Bool(TRUE)])))

\* await withRetry(() => exchangeCodeForSession(out.action_link)); return { ok: true }
ResumePasskeyExchange ==
    /\ pc = "resume" /\ site = "pk_exchange"
    /\ Finish(IF ret.kind = "throw" THEN ret ELSE Returned(Obj([ok |-> Bool(TRUE)])))

---------------------------------------------------------------------------
(* registerPasskey *)

PathRegOptions == "/webauthn/generate-registration-options"
PathRegVerify == "/webauthn/verify-registration"

\* email.split('@')[0]
RECURSIVE LocalPart(_)
LocalPart(s) ==
    IF s = <<>> \/ Head(s) = "@" THEN <<>> ELSE <<Head(s)>> \o LocalPart(Tail(s))

\* const email = user.email || ''
UserEmail(user) == OrElse(Get(user, "email"), Str(<<>>))

\* user.user_metadata?.username || (email ? email.split('@')[0] : 'user')
RegistrationUsername(user) ==
    OrElse(Get(Get(user, "user_metadata"), "username"),
           IF Truthy(UserEmail(user)) THEN Str(LocalPart(UserEmail(user).s))
           ELSE Str(StrUser))

\* asks the SDK for an anonymous sign-in to obtain a user
GetUserCallAnonymous == Direct("signInAnonymously", Undef)

\* supabase.auth.getUser()
GetUserCall == Direct("getUser", Undef)

RegOptionsPost(user) ==
    PostCall(PathRegOptions,
             Obj([user_id |-> Get(user, "id"), username |-> RegistrationUsername(user),
                  email |-> UserEmail(user)]))

RegVerifyPost(attestation, user) ==
    PostCall(PathRegVerify, Obj([attestation |-> attestation, user_id |-> Get(user, "id")]))

\* requests the registration options whether or not a user is signed in
AfterGetUserUnchecked(v) ==
    [kind |-> "post", user |-> Get(Get(v, "data"), "user"),
     call |-> RegOptionsPost(Get(Get(v, "data"), "user"))]

\* registerPasskey once getUser answered v: if (!user) throw new
\* Error('Not authenticated'), else the registration-options request
AfterGetUser(v) ==
    IF ~Truthy(Get(Get(v, "data"), "user"))
    THEN [kind |-> "throw", user |-> Null, call |-> NoCall]
    ELSE [kind |-> "post", user |-> Get(Get(v, "data"), "user"),
          call |-> RegOptionsPost(Get(Get(v, "data"), "user"))]

\* an invocation that ends before its first call
BeginFailed(o, s, r) ==
    /\ op' = o
    /\ pc' = "done"
    /\ site' = s
    /\ cur' = NoCall
    /\ attempt' = 0
    /\ email' = Undef
    /\ ret' = NoOutcome
    /\ calls' = <<>>
    /\ result' = r
    /\ UNCHANGED <<urlOk, session, storage, marks>>

\* `user` is kept in the variable email between the awaits of registerPasskey
RegisterPasskey ==
    /\ pc \in {"idle", "done"}
    /\ \E imported \in BOOLEAN :
        LET o == [name |-> "registerPasskey", before |-> session]
        IN IF ~imported
           THEN BeginFailed(o, "rp_import", Thrown(Err(MsgImportFailed)))
           ELSE BeginAt("sdk", o, GetUserCall, "rp_getUser", Undef)

ResumeRegisterGetUser ==
    /\ pc = "resume" /\ site = "rp_getUser"
    /\ IF ret.kind = "throw"
       THEN Finish(ret)
       ELSE LET a == AfterGetUser(ret.val)
            IN IF a.kind = "throw"
               THEN Finish(Thrown(Err(MsgNotAuthenticated)))
               ELSE /\ email' = a.user
                    /\ AwaitAt("post", a.call, "rp_options")

ResumeRegisterOptions ==
    /\ pc = "resume" /\ site = "rp_options"
    /\ IF ret.kind = "throw"
       THEN Finish(ret)
       ELSE /\ AwaitAt("ceremony", Direct("startRegistration", ret.val), "rp_ceremony")
            /\ UNCHANGED email

ResumeRegisterCeremony ==
    /\ pc = "resume" /\ site = "rp_ceremony"
    /\ IF ret.kind = "throw"
       THEN Finish(ret)
       ELSE /\ AwaitAt("post", RegVerifyPost(ret.val, email), "rp_verify")
            /\ UNCHANGED email

\* await postJson('/webauthn/verify-registration', ...); return { ok: true }
ResumeRegisterVerify ==
    /\ pc = "resume" /\ site = "rp_verify"
    /\ Finish(IF ret.kind = "throw" THEN ret ELSE Returned(Obj([ok |-> Bool(TRUE)])))

---------------------------------------------------------------------------
(* markPasskeyEnrolled, hasLocalPasskeyFlag *)

FlagKey == "salmar_has_passkey"

\* the arguments of markPasskeyEnrolled: omitted (undefined), true, false
MarkArgs == {Undef, Bool(TRUE), Bool(FALSE)}

\* the default parameter: flag = true
FlagParam(arg) == IF arg = Undef THEN Bool(TRUE) ELSE arg

\* stores the flag's text instead of '1'
StoreFlagAsText(flag, st) ==
    IF Truthy(flag) THEN Str(<<"t", "r", "u", "e">>) ELSE Null

\* the stored key after: if (flag) setItem(key, '1'); else removeItem(key)
StoreFlag(flag, st) ==
    IF Truthy(flag) THEN Str(<<"1">>) ELSE Null

\* localStorage.getItem(key) === '1'
ReadFlag(st) == Bool(st = Str(<<"1">>))

\* an invocation without awaits: it runs to its end in one step
RunToEnd(o, cs, r) ==
    /\ op' = o
    /\ pc' = "done"
    /\ site' = "none"
    /\ cur' = NoCall
    /\ attempt' = 0
    /\ email' = Undef
    /\ ret' = NoOutcome
    /\ calls' = cs
    /\ result' = r
    /\ UNCHANGED <<urlOk, session>>

MarkPasskeyEnrolled ==
    /\ pc \in {"idle", "done"}
    /\ Len(marks) < MaxMarks
    /\ \E arg \in MarkArgs :
        /\ storage' = StoreFlag(FlagParam(arg), storage)
        /\ marks' = Append(marks, arg)
        /\ RunToEnd([name |-> "markPasskeyEnrolled", flag |-> arg],
                    <<[call |-> IF Truthy(FlagParam(arg)) THEN "localStorage.setItem"
                                ELSE "localStorage.removeItem",
                       arg |-> FlagKey, out |-> Returned(Undef)]>>,
                    Returned(Undef))

HasLocalPasskeyFlag ==
    /\ pc \in {"idle", "done"}
    /\ RunToEnd([name |-> "hasLocalPasskeyFlag"],
                <<[call |-> "localStorage.getItem", arg |-> FlagKey,
                   out |-> Returned(storage)]>>,
                Returned(ReadFlag(storage)))
    /\ UNCHANGED <<storage, marks>>

\* the stored key before the first call: absent, '1', or another value
InitFlag ==
    /\ op = [name |-> "none"]
    /\ pc = "idle"
    /\ site = "none"
    /\ cur = NoCall
    /\ attempt = 0
    /\ email = Undef
    /\ ret = NoOutcome
    /\ calls = <<>>
    /\ result = NoOutcome
    /\ urlOk = TRUE
    /\ session = Null
    /\ storage \in {Null, Str(<<"1">>), Str(<<"0">>)}
    /\ marks = <<>>

NextFlag ==
    \/ MarkPasskeyEnrolled
    \/ HasLocalPasskeyFlag

\* the passkey flag on its own: no other operation reads or writes the key
SpecFlag == InitFlag /\ [][NextFlag]_vars

Next ==
    \/ CallWithRetry
    \/ SdkStep
    \/ ResumeWithRetry
    \/ SignInIdentifier
    \/ ResumeSignInResolve
    \/ ResumeSignInEmail
    \/ SignOut
    \/ ResumeSignOut
    \/ ExchangeCodeFromUrl
    \/ ResumeExchange
    \/ AuthenticatePasskey
    \/ PostStep
    \/ CeremonyStep
    \/ ResumePasskeyResolve
    \/ ResumePasskeyOptions
    \/ ResumePasskeyCeremony
    \/ ResumePasskeyVerify
    \/ ResumePasskeySetSession
    \/ ResumePasskeyExchange
    \/ GetSession
    \/ ResumeGetSession
    \/ RegisterPasskey
    \/ ResumeRegisterGetUser
    \/ ResumeRegisterOptions
    \/ ResumeRegisterCeremony
    \/ ResumeRegisterVerify

Spec == Init /\ [][Next]_vars

---------------------------------------------------------------------------
(* Properties *)

\* the calls of the running invocation to one external function, in order
CallsOf(f) == SelectSeq(calls, LAMBDA c : c.call = f)

\* the attempts of the operation handed to withRetry
FnCalls == CallsOf("fn")

ThrewTransient(c) == c.out.kind = "throw" /\ Transient(ErrorText(c.out.val))

ThrewPermanent(c) == c.out.kind = "throw" /\ ~Transient(ErrorText(c.out.val))

HasAt(s) == \E i \in 1..Len(s) : s[i] = "@"

\* C1: when every attempt of fn throws a transient error, withRetry(fn,
\* {retries: R, baseDelay: B}) ends after exactly R+1 attempts, with a wait of
\* B * 2^k after failed attempt k (k = 0..R-1) and nothing else in between,
\* and throws the error of the last attempt.
C1_ExhaustsBudgetThenPropagates ==
    (/\ op.name = "withRetry"
     /\ pc = "done"
     /\ \A i \in 1..Len(FnCalls) : ThrewTransient(FnCalls[i]))
    => /\ Len(FnCalls) = op.retries + 1
       /\ Len(calls) = 2 * op.retries + 1
       /\ \A k \in 0..(op.retries - 1) :
            /\ calls[2 * k + 1].call = "fn"
            /\ calls[2 * k + 2].call = "setTimeout"
            /\ calls[2 * k + 2].arg = op.baseDelay * (2 ^ k)
       /\ calls[Len(calls)].call = "fn"
       /\ result = Thrown(calls[Len(calls)].out.val)

C1_Witness ==
    /\ op.name = "withRetry" /\ pc = "done"
    /\ op.retries = 3 /\ op.baseDelay = 300
    /\ Len(FnCalls) = 4
    /\ \A i \in 1..Len(FnCalls) : ThrewTransient(FnCalls[i])
    /\ calls[6].arg = 1200
    /\ result.kind = "throw"

\* C2: an attempt that throws an error whose message does not match the
\* transient pattern is the last thing withRetry does: no wait and no further
\* attempt follows it, whatever budget remains, and withRetry throws that same
\* error; when it is the first attempt, fn was invoked exactly once.
C2_PermanentErrorPropagatesAtOnce ==
    op.name = "withRetry" =>
        \A i \in 1..Len(calls) :
            (calls[i].call = "fn" /\ ThrewPermanent(calls[i]))
            => /\ i = Len(calls)
               /\ pc \in {"resume", "done"}
               /\ pc = "done" => result = Thrown(calls[i].out.val)

C2_Witness ==
    /\ op.name = "withRetry" /\ pc = "done"
    /\ op.retries = 2
    /\ Len(calls) = 1
    /\ calls[1].out = Thrown(Err(MsgNetSplit))
    /\ result = Thrown(Err(MsgNetSplit))

\* C3: an attempt that returns is the last one: its value is returned
\* unchanged and no wait or further attempt follows, also when the value
\* carries an error payload whose message looks transient.
C3_ReturnedValueNeverRetried ==
    op.name = "withRetry" =>
        \A i \in 1..Len(calls) :
            (calls[i].call = "fn" /\ calls[i].out.kind = "return")
            => /\ i = Len(calls)
               /\ pc \in {"resume", "done"}
               /\ pc = "done" => result = Returned(calls[i].out.val)

C3_Witness ==
    /\ op.name = "withRetry" /\ pc = "done"
    /\ op.retries = 2
    /\ Len(calls) = 1
    /\ calls[1].out = Returned(ErrPayload(MsgFetchFailed))
    /\ result = Returned(ErrPayload(MsgFetchFailed))

\* the lookup answered, without an error payload, with no row or with a row
\* that has no email
LookupMiss(c) ==
    /\ c.out.kind = "return"
    /\ ~Truthy(Get(c.out.val, "error"))
    /\ ~Truthy(Get(Get(c.out.val, "data"), "email"))

UserNotFoundResult == Returned(Obj([error |-> Obj([message |-> Str(MsgUserNotFound)])]))

\* C4: for an identifier without '@', signInIdentifier's first call is the
\* profiles lookup for that (trimmed) username and every lookup is for it; when
\* the lookup answers with no row or a row without an email, the invocation
\* returns the user_not_found error and never calls signInWithPassword.
C4_LookupMissNeverSignsIn ==
    (op.name = "signInIdentifier" /\ ~HasAt(op.identifier))
    => /\ pc = "done" => Len(CallsOf("profiles")) >= 1
       /\ Len(calls) >= 1 => calls[1].call = "profiles"
       /\ \A i \in 1..Len(CallsOf("profiles")) :
            CallsOf("profiles")[i].arg = Str(Trim(op.identifier))
       /\ \A i \in 1..Len(calls) :
            (calls[i].call = "profiles" /\ LookupMiss(calls[i]))
            => /\ i = Len(calls)
               /\ CallsOf("signInWithPassword") = <<>>
               /\ pc \in {"resume", "done"}
               /\ pc = "done" => result = UserNotFoundResult

C4_Witness ==
    /\ op.name = "signInIdentifier" /\ pc = "done"
    /\ op.identifier = <<" ", "a", "l", " ">>
    /\ Len(calls) = 3
    /\ calls[3].call = "profiles"
    /\ calls[3].arg = Str(<<"a", "l">>)
    /\ Get(calls[3].out.val, "data") = Null
    /\ result = UserNotFoundResult

\* C5: for an identifier that contains '@', signInIdentifier never queries
\* the profiles lookup, every call it makes (waits aside) is signInWithPassword
\* with exactly the identifier as email and the supplied password and captcha
\* token, and it makes at least one such call.
C5_EmailSkipsLookup ==
    (op.name = "signInIdentifier" /\ HasAt(op.identifier))
    => /\ CallsOf("profiles") = <<>>
       /\ \A i \in 1..Len(calls) :
            calls[i].call # "setTimeout"
            => /\ calls[i].call = "signInWithPassword"
               /\ calls[i].arg = Obj([email |-> Str(op.identifier),
                                      password |-> op.password,
                                      options |-> Obj([captchaToken |-> op.captchaToken])])
       /\ pc = "done" => Len(CallsOf("signInWithPassword")) >= 1

C5_Witness ==
    /\ op.name = "signInIdentifier" /\ pc = "done"
    /\ op.identifier = <<" ", "x", "@", "y">>
    /\ op.captchaToken = Str(<<"c">>)
    /\ Len(CallsOf("signInWithPassword")) = 1
    /\ Get(calls[1].arg, "email") = Str(<<" ", "x", "@", "y">>)
    /\ result = Returned(OkPayload)

\* the 2xx answer of the verify-authentication endpoint, once received
VerifyCalls ==
    SelectSeq(calls, LAMBDA c : c.call = "fetch" /\ Get(c.arg, "path") = Str(<<PathVerify>>))

VerifyAnswered ==
    /\ op.name = "authenticatePasskey"
    /\ Len(VerifyCalls) = 1
    /\ VerifyCalls[1].out.kind = "return"
    /\ Truthy(Get(VerifyCalls[1].out.val, "ok"))

VerifyJson == Get(VerifyCalls[1].out.val, "json")

\* a non-empty access_token and a non-empty refresh_token
HasTokenPair(j) ==
    /\ Get(j, "access_token").t = "string" /\ Get(j, "access_token").s # <<>>
    /\ Get(j, "refresh_token").t = "string" /\ Get(j, "refresh_token").s # <<>>

HasActionLink(j) == Get(j, "action_link").t = "string" /\ Get(j, "action_link").s # <<>>

\* C6: when the verify-authentication response carries both tokens,
\* authenticatePasskey never calls exchangeCodeForSession and, once ended, has
\* called setSession exactly once, with exactly those two tokens; an
\* action_link in the same response changes nothing.
C6_TokenPairInstalledOnce ==
    (VerifyAnswered /\ HasTokenPair(VerifyJson))
    => /\ CallsOf("exchangeCodeForSession") = <<>>
       /\ Len(CallsOf("setSession")) <= 1
       /\ \A i \in 1..Len(CallsOf("setSession")) :
            CallsOf("setSession")[i].arg =
                Obj([access_token |-> Get(VerifyJson, "access_token"),
                     refresh_token |-> Get(VerifyJson, "refresh_token")])
       /\ pc = "done" => Len(CallsOf("setSession")) = 1

C6_Witness ==
    /\ VerifyAnswered /\ pc = "done"
    /\ HasTokenPair(VerifyJson) /\ HasActionLink(VerifyJson)
    /\ Len(CallsOf("setSession")) = 1
    /\ result = Returned(Obj([ok |-> Bool(TRUE)]))

\* C7: when the verify-authentication response carries an action_link and no
\* complete token pair, authenticatePasskey ends having called
\* exchangeCodeForSession exactly once, also when that call fails with a
\* transient transport error.
C7_ExchangeCalledExactlyOnce ==
    (VerifyAnswered /\ ~HasTokenPair(VerifyJson) /\ HasActionLink(VerifyJson) /\ pc = "done")
    => Len(CallsOf("exchangeCodeForSession")) = 1

\* C8: when the verify-authentication response carries neither a complete
\* token pair nor an action_link, authenticatePasskey makes no setSession and
\* no exchangeCodeForSession call and ends throwing Error('auth_failed').
C8_OtherShapeFails ==
    (VerifyAnswered /\ ~HasTokenPair(VerifyJson) /\ ~HasActionLink(VerifyJson))
    => /\ CallsOf("setSession") = <<>>
       /\ CallsOf("exchangeCodeForSession") = <<>>
       /\ pc \in {"resume", "done"}
       /\ pc = "done" => result = Thrown(Err(MsgAuthFailed))

C8_Witness ==
    /\ VerifyAnswered /\ pc = "done"
    /\ Get(VerifyJson, "access_token") = Undef
    /\ Get(VerifyJson, "refresh_token") = TokenR
    /\ Get(VerifyJson, "action_link") = Undef
    /\ result = Thrown(Err(MsgAuthFailed))

\* C9: exchangeCodeFromUrl never ends by throwing: when the last attempt of
\* the exchange threw, whatever the error and however many retries preceded
\* it, the thrown value is returned as {error: e}; a returned value is passed on.
C9_ExchangeNeverThrows ==
    (op.name = "exchangeCodeFromUrl" /\ pc = "done")
    => /\ result.kind = "return"
       /\ Len(calls) >= 1
       /\ calls[Len(calls)].out.kind = "throw"
            => result = Returned(Obj([error |-> calls[Len(calls)].out.val]))
       /\ calls[Len(calls)].out.kind = "return" => result = calls[Len(calls)].out

C9_Witness ==
    /\ op.name = "exchangeCodeFromUrl" /\ pc = "done"
    /\ Len(CallsOf("exchangeCodeForSession")) = 3
    /\ result = Returned(Obj([error |-> Err(MsgFetchFailed)]))

\* C10: a signOut invocation calls the SDK sign-out once and never waits:
\* whatever that call returns or throws, a transient-looking error included,
\* is the outcome of signOut.
C10_SignOutNotRetried ==
    op.name = "signOut"
    => /\ Len(calls) <= 1
       /\ \A i \in 1..Len(calls) : calls[i].call = "signOut"
       /\ pc = "done" => (Len(calls) = 1 /\ result = calls[1].out)

C10_Witness ==
    /\ op.name = "signOut" /\ pc = "done"
    /\ Len(calls) = 1
    /\ ThrewTransient(calls[1])
    /\ result = Thrown(Err(MsgFetchFailed))

\* C11: getSession goes through the retry policy: when every call of the
\* SDK's getSession throws a transient error, it is called 1 + 2 times, with
\* waits of 300 and 600 in between, before the failure is thrown.
C11_GetSessionRetried ==
    (/\ op.name = "getSession"
     /\ pc = "done"
     /\ \A i \in 1..Len(CallsOf("getSession")) : ThrewTransient(CallsOf("getSession")[i]))
    => /\ Len(CallsOf("getSession")) = DefaultRetries + 1
       /\ Len(CallsOf("setTimeout")) = DefaultRetries
       /\ result.kind = "throw"

\* C12: one invocation of exchangeCodeFromUrl submits the code to the SDK's
\* exchangeCodeForSession at most once, also when that call throws a
\* transient transport error.
C12_ExchangeSubmittedAtMostOnce ==
    op.name = "exchangeCodeFromUrl" => Len(CallsOf("exchangeCodeForSession")) <= 1

\* the lookup answered with an error payload
LookupError(c) == c.out.kind = "return" /\ Truthy(Get(c.out.val, "error"))

LastCall == calls[Len(calls)]

\* C13: in signInIdentifier and in authenticatePasskey, a username lookup
\* that answers with an error payload ends the operation with that lookup
\* error (returned as {error} or thrown), never with user_not_found.
C13_LookupErrorStaysDistinct ==
    (/\ op.name \in {"signInIdentifier", "authenticatePasskey"}
     /\ pc = "done"
     /\ Len(calls) >= 1
     /\ LastCall.call = "profiles"
     /\ LookupError(LastCall))
    => /\ result \in {Returned(Obj([error |-> Get(LastCall.out.val, "error")])),
                      Thrown(Get(LastCall.out.val, "error"))}
       /\ result # UserNotFoundResult
       /\ result # Thrown(Err(MsgUserNotFound))

\* C14: in signInIdentifier and in authenticatePasskey, a lookup miss is not
\* retried and ends the operation by returning the structured user_not_found
\* result; it is never thrown.
C14_UserNotFoundReturnedNotThrown ==
    (/\ op.name \in {"signInIdentifier", "authenticatePasskey"}
     /\ pc = "done"
     /\ \E i \in 1..Len(calls) : calls[i].call = "profiles" /\ LookupMiss(calls[i]))
    => /\ LastCall.call = "profiles" /\ LookupMiss(LastCall)
       /\ result = UserNotFoundResult

\* the SDK calls that create, replace or destroy the session
SessionChangingCalls ==
    {"setSession", "exchangeCodeForSession", "signInWithPassword", "signUp",
     "signInWithOAuth", "signInAnonymously", "signOut"}

\* C15: throughout a registerPasskey invocation, successful or failed, no
\* session-changing SDK call is made and the session held by the SDK is the
\* one held when the invocation began.
C15_RegisterKeepsSession ==
    op.name = "registerPasskey"
    => /\ \A i \in 1..Len(calls) : calls[i].call \notin SessionChangingCalls
       /\ session = op.before

C15_Witness ==
    /\ op.name = "registerPasskey" /\ pc = "done"
    /\ Len(calls) = 4
    /\ result = Returned(Obj([ok |-> Bool(TRUE)]))
    /\ session = StoredSession

\* a call that failed: it threw, or it is a fetch answered with a non-2xx status
StepFailed(c) ==
    \/ c.out.kind = "throw"
    \/ c.call = "fetch" /\ ~Truthy(Get(c.out.val, "ok"))

RegisterSteps == <<"getUser", "fetch", "startRegistration", "fetch">>

RegisterPaths == <<"", PathRegOptions, "", PathRegVerify>>

\* C16: registerPasskey's calls are, in this order, getUser, the
\* registration-options request, the ceremony and the verification request;
\* when getUser reports no user nothing follows and 'Not authenticated' is
\* thrown; a failed step is the last call and ends the operation with a throw;
\* {ok: true} is returned only after all four calls succeeded.
C16_RegisterNeedsUserAndOrder ==
    op.name = "registerPasskey"
    => /\ Len(calls) <= 4
       /\ \A i \in 1..Len(calls) :
            /\ calls[i].call = RegisterSteps[i]
            /\ calls[i].call = "fetch" => Get(calls[i].arg, "path") = Str(<<RegisterPaths[i]>>)
            /\ StepFailed(calls[i])
                => /\ i = Len(calls)
                   /\ pc \in {"resume", "done"}
                   /\ pc = "done" => result.kind = "throw"
       /\ (/\ Len(calls) >= 1
           /\ calls[1].out.kind = "return"
           /\ Get(Get(calls[1].out.val, "data"), "user") = Null)
          => /\ Len(calls) = 1
             /\ pc \in {"resume", "done"}
             /\ pc = "done" => result = Thrown(Err(MsgNotAuthenticated))
       /\ (pc = "done" /\ result.kind = "return")
          => /\ result = Returned(Obj([ok |-> Bool(TRUE)]))
             /\ Len(calls) = 4
             /\ \A i \in 1..4 : ~StepFailed(calls[i])

C16_Witness ==
    /\ op.name = "registerPasskey" /\ pc = "done"
    /\ Len(calls) = 1
    /\ calls[1].out.kind = "return"
    /\ session = Null
    /\ result = Thrown(Err(MsgNotAuthenticated))

\* C17: once markPasskeyEnrolled has been called, whatever the key held
\* before, the key is absent or holds exactly '1', and hasLocalPasskeyFlag()
\* returns the argument of the last markPasskeyEnrolled call (true when the
\* argument was omitted).
C17_FlagReadsLastMark ==
    marks # <<>>
    => /\ storage \in {Null, Str(<<"1">>)}
       /\ (op.name = "hasLocalPasskeyFlag" /\ pc = "done")
          => /\ marks[Len(marks)] = Bool(TRUE) => result = Returned(Bool(TRUE))
             /\ marks[Len(marks)] = Bool(FALSE) => result = Returned(Bool(FALSE))
             /\ marks[Len(marks)] = Undef => result = Returned(Bool(TRUE))

C17_Witness ==
    /\ op.name = "hasLocalPasskeyFlag" /\ pc = "done"
    /\ marks = <<Bool(FALSE), Bool(TRUE)>>
    /\ storage = Str(<<"1">>)
    /\ result = Returned(Bool(TRUE))

\* the step of authenticatePasskey a call belongs to: 1 username lookup,
\* 2 options request, 3 ceremony, 4 verification request, 5 session install
\* (0 for a wait)
PasskeyStage(c) ==
    CASE c.call = "profiles" -> 1
      [] c.call = "fetch" /\ Get(c.arg, "path") = Str(<<PathOptions>>) -> 2
      [] c.call = "startAuthentication" -> 3
      [] c.call = "fetch" /\ Get(c.arg, "path") = Str(<<PathVerify>>) -> 4
      [] c.call \in {"setSession", "exchangeCodeForSession"} -> 5
      [] c.call = "setTimeout" -> 0
      [] OTHER -> 6

\* the step succeeded: the lookup found an email, the request was answered
\* 2xx, the ceremony returned
PasskeyStepOk(c) ==
    /\ c.out.kind = "return"
    /\ c.call = "profiles"
        => ~Truthy(Get(c.out.val, "error")) /\ Truthy(Get(Get(c.out.val, "data"), "email"))
    /\ c.call = "fetch" => Truthy(Get(c.out.val, "ok"))

IsUsername(identifier) ==
    /\ identifier.t = "string"
    /\ identifier.s # <<>>
    /\ ~HasAt(identifier.s)

\* C18: in authenticatePasskey the calls follow the order lookup, options
\* request, ceremony, verification request, session install; setSession or the
\* code exchange is called only after a successful verification request, which
\* follows a completed ceremony, which follows a successful options request,
\* which follows a successful lookup when the identifier is a username; a
\* failed step (a lookup that withRetry gives up on or that finds no email, a
\* request not answered 2xx, a ceremony that throws) is the last call and the
\* operation ends with a throw; a lookup that throws a transient error within
\* the retry budget is followed by a wait and the lookup again.
C18_SessionOnlyAfterVerification ==
    op.name = "authenticatePasskey"
    => /\ \A i \in 1..Len(calls) : PasskeyStage(calls[i]) <= 5
       /\ \A i \in 1..Len(calls) : \A j \in (i + 1)..Len(calls) :
            \/ PasskeyStage(calls[j]) = 0
            \/ PasskeyStage(calls[i]) <= PasskeyStage(calls[j])
       /\ \A i \in 1..Len(calls) :
            PasskeyStage(calls[i]) = 5
            => \E j2 \in 1..Len(calls) : \E j3 \in (j2 + 1)..Len(calls) :
               \E j4 \in (j3 + 1)..(i - 1) :
                   /\ PasskeyStage(calls[j2]) = 2 /\ PasskeyStepOk(calls[j2])
                   /\ PasskeyStage(calls[j3]) = 3 /\ PasskeyStepOk(calls[j3])
                   /\ PasskeyStage(calls[j4]) = 4 /\ PasskeyStepOk(calls[j4])
                   /\ IsUsername(op.identifier)
                        => \E j1 \in 1..(j2 - 1) :
                             PasskeyStage(calls[j1]) = 1 /\ PasskeyStepOk(calls[j1])
       /\ \A i \in 1..Len(calls) :
            (/\ PasskeyStage(calls[i]) \in 1..4
             /\ ~PasskeyStepOk(calls[i])
             /\ ~ThrewTransient(calls[i]) \/ PasskeyStage(calls[i]) > 1 \/ i > 2 * DefaultRetries)
            => /\ i = Len(calls)
               /\ pc \in {"resume", "done"}
               /\ pc = "done" => result.kind = "throw"
       /\ \A i \in 1..Len(calls) :
            (PasskeyStage(calls[i]) = 1 /\ ThrewTransient(calls[i]) /\ i <= 2 * DefaultRetries)
            => \A j \in (i + 1)..Len(calls) :
                 j <= i + 2 => PasskeyStage(calls[j]) \in {0, 1}
       /\ IsUsername(op.identifier) /\ Len(calls) >= 1 => PasskeyStage(calls[1]) = 1

C18_Witness ==
    /\ op.name = "authenticatePasskey" /\ pc = "done"
    /\ IsUsername(op.identifier)
    /\ Len(calls) = 7
    /\ PasskeyStage(calls[1]) = 1 /\ ~PasskeyStepOk(calls[1])
    /\ PasskeyStage(calls[3]) = 1 /\ PasskeyStepOk(calls[3])
    /\ PasskeyStage(calls[7]) = 5
    /\ calls[7].call = "setSession"
    /\ result = Returned(Obj([ok |-> Bool(TRUE)]))

\* what is left of a running withRetry: twice the attempts still allowed
\* while an attempt is pending, 1 when the outcome is being handed over
RetryMeasure ==
    IF op.name # "withRetry" THEN 0
    ELSE CASE pc = "sdk" -> 2 * (op.retries - attempt) + 2
           [] pc = "resume" -> 1
           [] OTHER -> 0

\* C19: withRetry makes at most retries+1 attempts; an attempt that returns
\* after k transient throws (k <= retries) is attempt k+1, the last one, and
\* its value is what withRetry returns; every step of a running withRetry
\* lowers a non-negative measure, so withRetry ends when its attempts do.
C19_StopsAtFirstCompletion ==
    /\ [](op.name = "withRetry"
          => /\ Len(FnCalls) <= op.retries + 1
             /\ attempt <= op.retries
             /\ RetryMeasure >= 0
             /\ Len(CallsOf("setTimeout")) = attempt
             /\ \A i \in 1..Len(FnCalls) :
                  FnCalls[i].out.kind = "return"
                  => /\ i = Len(FnCalls)
                     /\ i = attempt + 1
                     /\ \A k \in 1..(i - 1) : ThrewTransient(FnCalls[k])
                     /\ pc \in {"resume", "done"}
                     /\ pc = "done" => result = Returned(FnCalls[i].out.val))
    /\ [][(op.name = "withRetry" /\ pc \in {"sdk", "resume"})
          => RetryMeasure' < RetryMeasure]_vars

C19_Witness ==
    /\ op.name = "withRetry" /\ pc = "done"
    /\ op.retries = 3
    /\ Len(FnCalls) = 3
    /\ ThrewTransient(FnCalls[1]) /\ ThrewTransient(FnCalls[2])
    /\ FnCalls[3].out = Returned(OkPayload)
    /\ result = Returned(OkPayload)

\* C20: authenticatePasskey returns {ok: true} only when its last call, the
\* setSession or the code exchange, returned without an error payload.
C20_OkOnlyIfSessionInstalled ==
    (/\ op.name = "authenticatePasskey"
     /\ pc = "done"
     /\ result = Returned(Obj([ok |-> Bool(TRUE)])))
    => /\ LastCall.call \in {"setSession", "exchangeCodeForSession"}
       /\ LastCall.out.kind = "return"
       /\ ~Truthy(Get(LastCall.out.val, "error"))

====
